---- MODULE Spec2Model ----
(***************************************************************************)
(* BlockBuster wallet analysis pipeline (src/app/api/analyze.ts):          *)
(* analyzeWallet -> fetchEtherscanData (three explorer GETs) ->            *)
(* analyzeWithGroq (payload, completion POST, JSON.parse) -> report.       *)
(***************************************************************************)
EXTENDS Integers, Sequences, FiniteSets, TLC

\* ------------------------------------------------------------------------
\* Bounds of the model
\* ------------------------------------------------------------------------

\* how many records beyond the 20-record cap the explorer may return
MaxOver == 1

\* how many times the wall clock may advance during a run
MaxClock == 1

\* ------------------------------------------------------------------------
\* Program constants
\* ------------------------------------------------------------------------

\* /^0x[a-fA-F0-9]{40}$/ : the number of hexadecimal characters
HexLen == 40

\* txResponse.data.result.slice(0, 20)
SliceEnd == 20

\* ------------------------------------------------------------------------
\* JavaScript values. Every value is a record of the same shape so that any
\* two values can be compared: t is the type tag, the other fields hold the
\* payload of that type and a neutral default otherwise. An object is the
\* sequence of its own properties in insertion order.
\* ------------------------------------------------------------------------

JV(t, n, s, b, a, o) == [t |-> t, n |-> n, s |-> s, b |-> b, a |-> a, o |-> o]

Undefined == JV("undefined", 0, "", FALSE, <<>>, <<>>)

Null == JV("null", 0, "", FALSE, <<>>, <<>>)

Num(n) == JV("number", n, "", FALSE, <<>>, <<>>)

Str(s) == JV("string", 0, s, FALSE, <<>>, <<>>)

Bool(b) == JV("boolean", 0, "", b, <<>>, <<>>)

Arr(a) == JV("array", 0, "", FALSE, a, <<>>)

Obj(o) == JV("object", 0, "", FALSE, <<>>, o)

P(k, v) == [k |-> k, v |-> v]

\* the last index of props whose key is k, 0 when there is none
KeyIndex(props, k) ==
    LET hits == {j \in 1..Len(props) : props[j].k = k}
    IN  IF hits = {} THEN 0 ELSE CHOOSE j \in hits : \A h \in hits : h <= j

\* v.k where v is known to be neither undefined nor null: an object's own
\* property, undefined for a missing property and for the properties this
\* program reads (result, hash, choices, ...) on a string, number or array
GetProp(v, k) ==
    IF v.t = "object" /\ KeyIndex(v.o, k) # 0 THEN v.o[KeyIndex(v.o, k)].v
    ELSE Undefined

\* reading a property of undefined or null throws a TypeError
Nullish(v) == v.t \in {"undefined", "null"}

\* JavaScript truthiness, as `x || d` tests it
Truthy(v) ==
    CASE v.t \in {"undefined", "null"} -> FALSE
      [] v.t = "number" -> v.n # 0
      [] v.t = "string" -> v.s # ""
      [] v.t = "boolean" -> v.b
      [] OTHER -> TRUE

\* x || d
OrElse(x, d) == IF Truthy(x) THEN x ELSE d

\* Array.isArray(v)
IsArray(v) == v.t = "array"

\* ------------------------------------------------------------------------
\* Errors: name and message as on a JavaScript Error, the axios error code
\* and HTTP status on an AxiosError, and the values attached to the error
\* object (none of the errors this program constructs attaches any).
\* ------------------------------------------------------------------------

Err(name, message, code, status, attached) ==
    [name |-> name, message |-> message, code |-> code, status |-> status,
     attached |-> attached]

NoError == Err("", "", "", 0, <<>>)

TypeError(message) == Err("TypeError", message, "", 0, <<>>)

SyntaxError(message) == Err("SyntaxError", message, "", 0, <<>>)

\* ------------------------------------------------------------------------
\* Address validation
\* ------------------------------------------------------------------------

HexChars ==
    {"0", "1", "2", "3", "4", "5", "6", "7", "8", "9",
     "a", "b", "c", "d", "e", "f", "A", "B", "C", "D", "E", "F"}

\* walletAddress.match(/^0x[a-fA-F0-9]{40}$/) on the string as the sequence
\* of its characters; without the m flag ^ and $ are the two ends of the input
MatchesAddressPattern(chars) ==
    /\ Len(chars) = 2 + HexLen
    /\ chars[1] = "0"
    /\ chars[2] = "x"
    /\ \A j \in 3..(2 + HexLen) : chars[j] \in HexChars

\* ------------------------------------------------------------------------
\* HTTP: what the network hands to axios for one request
\* ------------------------------------------------------------------------

HttpResponse(net, status, data) == [net |-> net, status |-> status, data |-> data]

\* how axios settles a request (default validateStatus: 2xx resolves): a
\* resolved promise carries the response, a rejected one an AxiosError with
\* the response body attached when there was a response
AxiosSettle(resp) ==
    IF resp.net # "ok"
    THEN [ok |-> FALSE, data |-> Undefined,
          error |-> Err("AxiosError", "Network Error", "ERR_NETWORK", 0, <<>>)]
    ELSE IF resp.status < 200 \/ resp.status > 299
    THEN [ok |-> FALSE, data |-> Undefined,
          error |-> Err("AxiosError", "Request failed with status code",
                        IF resp.status >= 500 THEN "ERR_BAD_RESPONSE"
                        ELSE "ERR_BAD_REQUEST",
                        resp.status, <<resp.data>>)]
    ELSE [ok |-> TRUE, data |-> resp.data, error |-> NoError]

\* ------------------------------------------------------------------------
\* fetchEtherscanData: formatting of the three responses (lines 187-212)
\* ------------------------------------------------------------------------

Thrown(e) == [ok |-> FALSE, value |-> Undefined, error |-> e]

Returned(v) == [ok |-> TRUE, value |-> v, error |-> NoError]

\* a map callback that copies methodId and functionName like the other fields
MapTransactionNoDefaults(tx) ==
    Obj(<<P("hash", GetProp(tx, "hash")),
          P("blockNumber", GetProp(tx, "blockNumber")),
          P("timeStamp", GetProp(tx, "timeStamp")),
          P("from", GetProp(tx, "from")),
          P("to", GetProp(tx, "to")),
          P("value", GetProp(tx, "value")),
          P("gasPrice", GetProp(tx, "gasPrice")),
          P("gasUsed", GetProp(tx, "gasUsed")),
          P("methodId", GetProp(tx, "methodId")),
          P("functionName", GetProp(tx, "functionName"))>>)

\* the callback of txResponse.data.result.slice(0, 20).map(...)
MapTransaction(tx) ==
    Obj(<<P("hash", GetProp(tx, "hash")),
          P("blockNumber", GetProp(tx, "blockNumber")),
          P("timeStamp", GetProp(tx, "timeStamp")),
          P("from", GetProp(tx, "from")),
          P("to", GetProp(tx, "to")),
          P("value", GetProp(tx, "value")),
          P("gasPrice", GetProp(tx, "gasPrice")),
          P("gasUsed", GetProp(tx, "gasUsed")),
          P("methodId", OrElse(GetProp(tx, "methodId"), Str(""))),
          P("functionName", OrElse(GetProp(tx, "functionName"), Str("")))>>)

\* the callback of tokenBalanceResponse.data.result.map(...)
MapToken(token) ==
    Obj(<<P("tokenName", OrElse(GetProp(token, "tokenName"), Str("Unknown"))),
          P("tokenSymbol", OrElse(GetProp(token, "tokenSymbol"), Str("Unknown"))),
          P("tokenQuantity", OrElse(GetProp(token, "balance"), Str("0"))),
          P("tokenContractAddress", OrElse(GetProp(token, "contractAddress"), Str("")))>>)

\* a.slice(0, end) of an array
Slice(a, end) == SubSeq(a, 1, IF Len(a) < end THEN Len(a) ELSE end)

\* result.slice(0, 20) of the transaction list
SliceRecent(a) == Slice(a, SliceEnd)

\* tokenBalances as `result || []` would give it: no Array.isArray test
TokenBalancesUnchecked(tokenResult) ==
    IF IsArray(tokenResult)
    THEN Arr([j \in 1..Len(tokenResult.a) |-> MapToken(tokenResult.a[j])])
    ELSE OrElse(tokenResult, Arr(<<>>))

\* the tokenBalances property (lines 204-211), for a result whose elements
\* can be read
TokenBalances(tokenResult) ==
    IF IsArray(tokenResult)
    THEN Arr([j \in 1..Len(tokenResult.a) |-> MapToken(tokenResult.a[j])])
    ELSE Arr(<<>>)

\* the return expression of fetchEtherscanData, evaluated in source order;
\* the first property read of undefined or null, and the first call of a
\* method the value does not have, throws a TypeError
FormatEtherscanData(balanceData, txData, tokenData) ==
    LET txResult == GetProp(txData, "result")
        tokenResult == GetProp(tokenData, "result")
    IN  IF Nullish(balanceData)
        THEN Thrown(TypeError("Cannot read properties of undefined (reading 'result')"))
        ELSE IF Nullish(txData)
        THEN Thrown(TypeError("Cannot read properties of undefined (reading 'result')"))
        ELSE IF Nullish(txResult)
        THEN Thrown(TypeError("Cannot read properties of undefined (reading 'length')"))
        ELSE IF txResult.t = "string"
        THEN Thrown(TypeError("slice(...).map is not a function"))
        ELSE IF txResult.t # "array"
        THEN Thrown(TypeError("result.slice is not a function"))
        ELSE IF \E j \in 1..Len(SliceRecent(txResult.a)) : Nullish(txResult.a[j])
        THEN Thrown(TypeError("Cannot read properties of undefined (reading 'hash')"))
        ELSE IF Nullish(tokenData)
        THEN Thrown(TypeError("Cannot read properties of undefined (reading 'result')"))
        ELSE IF IsArray(tokenResult) /\ \E j \in 1..Len(tokenResult.a) : Nullish(tokenResult.a[j])
        THEN Thrown(TypeError("Cannot read properties of undefined (reading 'tokenName')"))
        ELSE Returned(Obj(<<
            P("balance", GetProp(balanceData, "result")),
            P("transactions", Obj(<<
                P("count", Num(Len(txResult.a))),
                P("recent", Arr([j \in 1..Len(SliceRecent(txResult.a)) |->
                                    MapTransaction(SliceRecent(txResult.a)[j])]))>>)),
            P("tokenBalances", TokenBalances(tokenResult))>>))

\* ------------------------------------------------------------------------
\* JSON text. A text is handled as the sequence of its lexical tokens: the
\* punctuation {, }, [, ], the comma and the colon, string and number
\* literals, the literals true, false and null, and "word" for any other run
\* of characters (prose), which no JSON grammar rule accepts.
\* ------------------------------------------------------------------------

Tok(k, s, n) == [k |-> k, s |-> s, n |-> n]

LBrace == Tok("{", "", 0)

RBrace == Tok("}", "", 0)

LBracket == Tok("[", "", 0)

RBracket == Tok("]", "", 0)

Comma == Tok(",", "", 0)

Colon == Tok(":", "", 0)

TStr(s) == Tok("str", s, 0)

TNum(n) == Tok("num", "", n)

TTrue == Tok("true", "", 0)

TFalse == Tok("false", "", 0)

TNull == Tok("null", "", 0)

TWord(s) == Tok("word", s, 0)

ParseFail == [ok |-> FALSE, v |-> Undefined, next |-> 0]

ParseOk(v, next) == [ok |-> TRUE, v |-> v, next |-> next]

\* an object under construction: a repeated key keeps its place and takes
\* the later value
PutProp(props, k, v) ==
    IF KeyIndex(props, k) = 0 THEN Append(props, P(k, v))
    ELSE [props EXCEPT ![KeyIndex(props, k)] = P(k, v)]

RECURSIVE ParseValue(_, _)
RECURSIVE ParseMembers(_, _, _)
RECURSIVE ParseElements(_, _, _)

\* the JSON grammar's value at token i of ts
ParseValue(ts, i) ==
    IF i > Len(ts) THEN ParseFail
    ELSE CASE ts[i].k = "str" -> ParseOk(Str(ts[i].s), i + 1)
           [] ts[i].k = "num" -> ParseOk(Num(ts[i].n), i + 1)
           [] ts[i].k = "true" -> ParseOk(Bool(TRUE), i + 1)
           [] ts[i].k = "false" -> ParseOk(Bool(FALSE), i + 1)
           [] ts[i].k = "null" -> ParseOk(Null, i + 1)
           [] ts[i].k = "{" ->
                IF i + 1 <= Len(ts) /\ ts[i + 1].k = "}"
                THEN ParseOk(Obj(<<>>), i + 2)
                ELSE ParseMembers(ts, i + 1, <<>>)
           [] ts[i].k = "[" ->
                IF i + 1 <= Len(ts) /\ ts[i + 1].k = "]"
                THEN ParseOk(Arr(<<>>), i + 2)
                ELSE ParseElements(ts, i + 1, <<>>)
           [] OTHER -> ParseFail

\* members of an object from token i on: string : value, then , or }
ParseMembers(ts, i, acc) ==
    IF i + 1 > Len(ts) \/ ts[i].k # "str" \/ ts[i + 1].k # ":" THEN ParseFail
    ELSE LET r == ParseValue(ts, i + 2)
         IN  IF ~r.ok \/ r.next > Len(ts) THEN ParseFail
             ELSE IF ts[r.next].k = ","
             THEN ParseMembers(ts, r.next + 1, PutProp(acc, ts[i].s, r.v))
             ELSE IF ts[r.next].k = "}"
             THEN ParseOk(Obj(PutProp(acc, ts[i].s, r.v)), r.next + 1)
             ELSE ParseFail

\* elements of an array from token i on: value, then , or ]
ParseElements(ts, i, acc) ==
    LET r == ParseValue(ts, i)
    IN  IF ~r.ok \/ r.next > Len(ts) THEN ParseFail
        ELSE IF ts[r.next].k = ","
        THEN ParseElements(ts, r.next + 1, Append(acc, r.v))
        ELSE IF ts[r.next].k = "]"
        THEN ParseOk(Arr(Append(acc, r.v)), r.next + 1)
        ELSE ParseFail

\* the tokens of the assessment object the prompt asks for, with the given
\* riskScore and confidenceLevel: empty flags and recommendations, all five
\* behaviors false, summary "ok"
AssessmentTokens(score, confidence) ==
    <<LBrace, TStr("isFraudulent"), Colon, TFalse, Comma,
      TStr("riskScore"), Colon, TNum(score), Comma,
      TStr("confidenceLevel"), Colon, TStr(confidence), Comma,
      TStr("flags"), Colon, LBracket, RBracket, Comma,
      TStr("behaviors"), Colon, LBrace,
          TStr("highFrequencyTrading"), Colon, TFalse, Comma,
          TStr("largeTransfers"), Colon, TFalse, Comma,
          TStr("interactionsWithFlaggedWallets"), Colon, TFalse, Comma,
          TStr("unusualContractCalls"), Colon, TFalse, Comma,
          TStr("gasPriceAnomaly"), Colon, TFalse, RBrace, Comma,
      TStr("summary"), Colon, TStr("ok"), Comma,
      TStr("recommendations"), Colon, LBracket, RBracket, Comma,
      TStr("activityPatterns"), Colon, LBrace,
          TStr("activityAge"), Colon, TStr("1 day"), Comma,
          TStr("peakActivityPeriods"), Colon, LBracket, RBracket, Comma,
          TStr("dormantPeriods"), Colon, LBracket, RBracket, Comma,
          TStr("commonInteractions"), Colon, LBracket, RBracket, RBrace,
      RBrace>>

\* the texts a completion may carry, by name, and the tokens of each
Lex(text) ==
    CASE text = "" -> <<>>
      [] text = "assessment(5,Low)" -> AssessmentTokens(5, "Low")
      [] text = "assessment(100,High)" -> AssessmentTokens(100, "High")
      [] text = "assessment(150,Medium)" -> AssessmentTokens(150, "Medium")
      [] text = "assessment(-1,Low)" -> AssessmentTokens(-1, "Low")
      [] text = "assessment(50,Extreme)" -> AssessmentTokens(50, "Extreme")
      [] text = "{\"riskScore\":5,\"confidenceLevel\":\"Low\"}" ->
            <<LBrace, TStr("riskScore"), Colon, TNum(5), Comma,
              TStr("confidenceLevel"), Colon, TStr("Low"), RBrace>>
      [] text = "{}" -> <<LBrace, RBrace>>
      [] text = "42" -> <<TNum(42)>>
      [] text = "[]" -> <<LBracket, RBracket>>
      [] text = "Sure, here is the analysis" ->
            <<TWord("Sure"), Comma, TWord("here"), TWord("is"), TWord("the"),
              TWord("analysis")>>
      [] text = "Here is the JSON: assessment(5,Low)" ->
            <<TWord("Here"), TWord("is"), TWord("the"), TWord("JSON"), Colon>>
                \o AssessmentTokens(5, "Low")
      [] text = "{\"riskScore\":5" -> <<LBrace, TStr("riskScore"), Colon, TNum(5)>>
      [] OTHER -> <<TWord(text)>>

\* JSON.parse(x): x is first converted to a string (null reads "null",
\* undefined reads "undefined", which is no JSON), then parsed as one value
\* spanning the whole text; anything else throws a SyntaxError
JSONParse(x) ==
    LET ts == CASE x.t = "string" -> Lex(x.s)
                [] x.t = "null" -> <<TNull>>
                [] x.t = "number" -> <<TNum(x.n)>>
                [] x.t = "boolean" -> IF x.b THEN <<TTrue>> ELSE <<TFalse>>
                [] x.t = "undefined" -> <<TWord("undefined")>>
                [] x.t = "array" /\ x.a = <<>> -> <<>>
                \* an object reads "[object Object]"
                [] OTHER -> <<TWord("[object Object]")>>
        r == ParseValue(ts, 1)
    IN  IF r.ok /\ r.next = Len(ts) + 1 THEN Returned(r.v)
        ELSE Thrown(SyntaxError("Unexpected token in JSON"))

RECURSIVE StringifyValue(_)
RECURSIVE StringifyProps(_, _, _)
RECURSIVE StringifyItems(_, _)

\* the properties of an object from index j on; first tells whether none
\* has been written yet. A property whose value is undefined is left out.
StringifyProps(props, j, first) ==
    IF j > Len(props) THEN <<>>
    ELSE IF props[j].v.t = "undefined" THEN StringifyProps(props, j + 1, first)
    ELSE (IF first THEN <<>> ELSE <<Comma>>)
            \o <<TStr(props[j].k), Colon>> \o StringifyValue(props[j].v)
            \o StringifyProps(props, j + 1, FALSE)

\* the elements of an array from index j on; undefined is written as null
StringifyItems(a, j) ==
    IF j > Len(a) THEN <<>>
    ELSE (IF j = 1 THEN <<>> ELSE <<Comma>>)
            \o (IF a[j].t = "undefined" THEN <<TNull>> ELSE StringifyValue(a[j]))
            \o StringifyItems(a, j + 1)

\* JSON.stringify(v) for a value that is not undefined, as tokens
StringifyValue(v) ==
    CASE v.t = "string" -> <<TStr(v.s)>>
      [] v.t = "number" -> <<TNum(v.n)>>
      [] v.t = "boolean" -> IF v.b THEN <<TTrue>> ELSE <<TFalse>>
      [] v.t = "array" -> <<LBracket>> \o StringifyItems(v.a, 1) \o <<RBracket>>
      [] v.t = "object" -> <<LBrace>> \o StringifyProps(v.o, 1, TRUE) \o <<RBrace>>
      [] OTHER -> <<TNull>>

\* ------------------------------------------------------------------------
\* analyzeWithGroq
\* ------------------------------------------------------------------------

\* the request body of lines 223-258; the content of the user message is the
\* template literal's fixed text around the address and
\* JSON.stringify(etherscanData)
BuildPayload(walletAddress, etherscanData) ==
    [messages |-> <<
        [role |-> "system",
         content |-> [head |-> "You are a blockchain fraud detection expert. ... ONLY RESPOND WITH JSON.",
                      address |-> <<>>, mid |-> "", data |-> <<>>, tail |-> ""]],
        [role |-> "user",
         content |-> [head |-> "Analyze this Ethereum wallet address ",
                      address |-> walletAddress,
                      mid |-> " with the following Etherscan data: ",
                      data |-> StringifyValue(etherscanData),
                      tail |-> ". Evaluate for fraud indicators, ... Return ONLY a JSON object with these fields: {...}"]]>>,
     model |-> "llama3-70b-8192",
     temperature |-> "0.2",
     response_format |-> [type |-> "json_object"]]

NoPayload ==
    [messages |-> <<>>, model |-> "", temperature |-> "", response_format |-> [type |-> ""]]

\* a[0]
First(a) == IF a.t = "array" /\ Len(a.a) >= 1 THEN a.a[1] ELSE Undefined

\* response.data.choices[0].message.content (line 270): a TypeError at the
\* first read of a property of undefined or null
ReadContent(data) ==
    LET choices == GetProp(data, "choices")
        choice == First(choices)
        message == GetProp(choice, "message")
    IN  IF Nullish(data)
        THEN Thrown(TypeError("Cannot read properties of undefined (reading 'choices')"))
        ELSE IF Nullish(choices)
        THEN Thrown(TypeError("Cannot read properties of undefined (reading '0')"))
        ELSE IF Nullish(choice)
        THEN Thrown(TypeError("Cannot read properties of undefined (reading 'message')"))
        ELSE IF Nullish(message)
        THEN Thrown(TypeError("Cannot read properties of undefined (reading 'content')"))
        ELSE Returned(GetProp(message, "content"))

\* a catch block that rethrows what it caught
ParseFailureRethrow(caught, content) == caught

\* the error the catch block of lines 272-275 throws, given the error it
\* caught and the content that was read (neither is kept)
ParseFailure(caught, content) ==
    Err("Error", "Failed to parse analysis response", "", 0, <<>>)

\* the body read before the try block: only JSON.parse is guarded
ParseAnalysisReadOutsideTry(data) ==
    LET read == ReadContent(data)
        parsed == JSONParse(read.value)
    IN  IF ~read.ok THEN Thrown(read.error)
        ELSE IF ~parsed.ok THEN Thrown(ParseFailure(parsed.error, read.value))
        ELSE Returned(parsed.value)

\* the try block of lines 269-275 on the body of a resolved completion call
ParseAnalysis(data) ==
    LET read == ReadContent(data)
        parsed == JSONParse(read.value)
    IN  IF ~read.ok THEN Thrown(ParseFailure(read.error, Undefined))
        ELSE IF ~parsed.ok THEN Thrown(ParseFailure(parsed.error, read.value))
        ELSE Returned(parsed.value)

\* ------------------------------------------------------------------------
\* analyzeWallet
\* ------------------------------------------------------------------------

\* throw new Error('Invalid Ethereum wallet address format') (line 116)
InvalidAddressError == Err("Error", "Invalid Ethereum wallet address format", "", 0, <<>>)

\* a catch clause that throws an error of its own in place of the one caught
CatchWrap(error) == Err("Error", "Error analyzing wallet", "", 0, <<>>)

\* catch (error) { console.error(...); throw error; } (lines 133-136)
CatchRethrow(error) == error

\* new Date().toISOString() at clock reading ms (milliseconds since the epoch)
ToISOString(ms) ==
    [date |-> "1970-01-01", time |-> "00:00:00",
     millis |-> <<ms \div 100, (ms \div 10) % 10, ms % 10>>, zone |-> "Z"]

\* a report stamped with a time read before the work began
AssembleReportEarlyStamp(walletAddress, etherscanData, analysis, now) ==
    [address |-> walletAddress, isValid |-> TRUE, etherscanData |-> etherscanData,
     analysis |-> analysis, timestamp |-> ToISOString(0)]

\* the object literal of lines 126-132
AssembleReport(walletAddress, etherscanData, analysis, now) ==
    [address |-> walletAddress, isValid |-> TRUE, etherscanData |-> etherscanData,
     analysis |-> analysis, timestamp |-> ToISOString(now)]

NoReport ==
    [address |-> <<>>, isValid |-> FALSE, etherscanData |-> Undefined,
     analysis |-> Undefined, timestamp |-> ToISOString(0)]

Pending == [state |-> "pending", report |-> NoReport, error |-> NoError]

Fulfilled(report) == [state |-> "fulfilled", report |-> report, error |-> NoError]

Rejected(error) == [state |-> "rejected", report |-> NoReport, error |-> error]

\* ------------------------------------------------------------------------
\* The environment: the strings a caller may pass and the responses the two
\* services may give
\* ------------------------------------------------------------------------

Rep(c, n) == [j \in 1..n |-> c]

Prefix0x == <<"0", "x">>

\* hexadecimal digits of both cases and decimal digits, HexLen of them
MixedHex == [j \in 1..HexLen |-> IF j % 3 = 0 THEN "F" ELSE IF j % 3 = 1 THEN "a" ELSE "9"]

ValidAddresses == {Prefix0x \o MixedHex}

InvalidAddresses ==
    {<<>>,
     Prefix0x,
     Prefix0x \o Rep("a", HexLen - 1),
     Prefix0x \o Rep("a", HexLen + 1),
     <<"0", "X">> \o Rep("a", HexLen),
     Rep("a", HexLen + 2),
     Prefix0x \o Rep("a", HexLen - 1) \o <<"g">>,
     Prefix0x \o <<"-">> \o Rep("a", HexLen - 1),
     Prefix0x \o Rep("a", HexLen) \o <<"\n">>,
     <<" ">> \o Prefix0x \o Rep("a", HexLen)}

AddressInputs == ValidAddresses \cup InvalidAddresses

\* the explorer's JSON envelope
Envelope(status, message, result) ==
    Obj(<<P("status", Str(status)), P("message", Str(message)), P("result", result)>>)

EnvelopeNoResult(status, message) ==
    Obj(<<P("status", Str(status)), P("message", Str(message))>>)

\* responses every request may meet: no connection, and two error statuses
FailedResponses ==
    {HttpResponse("down", 0, Undefined),
     HttpResponse("ok", 500, Str("Internal Server Error")),
     HttpResponse("ok", 403, Str("Forbidden"))}

BalanceResponses ==
    FailedResponses \cup
    {HttpResponse("ok", 200, Envelope("1", "OK", Str("1000000000000000000"))),
     HttpResponse("ok", 200, Envelope("0", "NOTOK", Str("Max rate limit reached"))),
     HttpResponse("ok", 200, EnvelopeNoResult("0", "NOTOK")),
     HttpResponse("ok", 200, Envelope("1", "OK", Num(0))),
     HttpResponse("ok", 200, Null)}

TxFields ==
    {"hash", "blockNumber", "timeStamp", "from", "to", "value", "gasPrice",
     "gasUsed", "methodId", "functionName"}

\* the j-th transaction of a list, without the fields in omit and with the
\* fields in blank holding the empty string
TxRecord(j, omit, blank) ==
    LET all == <<P("hash", Str(ToString(j))),
                 P("blockNumber", Str(ToString(1000 - j))),
                 P("timeStamp", Str(ToString(1700000000 - j))),
                 P("from", Str("0xsender")),
                 P("to", Str("0xrecipient")),
                 P("value", Str("1000000000000000000")),
                 P("gasPrice", Str("20000000000")),
                 P("gasUsed", Str("21000")),
                 P("methodId", Str("0xa9059cbb")),
                 P("functionName", Str("transfer(address,uint256)"))>>
        kept == SelectSeq(all, LAMBDA p : p.k \notin omit)
    IN  Obj([k \in 1..Len(kept) |->
                IF kept[k].k \in blank THEN P(kept[k].k, Str("")) ELSE kept[k]])

\* a list of n transactions whose first and last are of the given shape
TxList(n, omit, blank) ==
    Arr([j \in 1..n |-> IF j \in {1, n} THEN TxRecord(j, omit, blank)
                        ELSE TxRecord(j, {}, {})])

TxOkResults ==
    {TxList(0, {}, {}), TxList(1, {}, {}), TxList(2, {"methodId", "functionName"}, {}),
     TxList(1, {"hash"}, {}), TxList(1, TxFields, {}),
     TxList(2, {"functionName"}, {"methodId", "to"})}
    \cup {TxList(n, {}, {}) : n \in (SliceEnd - 1)..(SliceEnd + MaxOver)}
    \cup {TxList(SliceEnd + MaxOver, {"to", "methodId"}, {})}

TxResponses ==
    FailedResponses \cup
    {HttpResponse("ok", 200, Envelope("1", "OK", r)) : r \in TxOkResults} \cup
    {HttpResponse("ok", 200, Envelope("0", "No transactions found", Arr(<<>>))),
     HttpResponse("ok", 200, Envelope("0", "NOTOK", Str("Max rate limit reached"))),
     HttpResponse("ok", 200, EnvelopeNoResult("0", "NOTOK")),
     HttpResponse("ok", 200, Envelope("1", "OK", Arr(<<Null>>))),
     HttpResponse("ok", 200, Str(""))}

TokenRecord(omit, blank) ==
    LET all == <<P("tokenName", Str("Tether USD")),
                 P("tokenSymbol", Str("USDT")),
                 P("balance", Str("2500000")),
                 P("contractAddress", Str("0xdac17f958d2ee523a2206206994597c13d831ec7"))>>
        kept == SelectSeq(all, LAMBDA p : p.k \notin omit)
    IN  Obj([k \in 1..Len(kept) |->
                IF kept[k].k \in blank THEN P(kept[k].k, Str("")) ELSE kept[k]])

TokenFields == {"tokenName", "tokenSymbol", "balance", "contractAddress"}

TokenResponses ==
    FailedResponses \cup
    {HttpResponse("ok", 200, Envelope("1", "OK", Str("0"))),
     HttpResponse("ok", 200, EnvelopeNoResult("0", "NOTOK")),
     HttpResponse("ok", 200, Envelope("1", "OK", Null)),
     HttpResponse("ok", 200, Envelope("1", "OK", Arr(<<>>))),
     HttpResponse("ok", 200, Envelope("1", "OK", Arr(<<TokenRecord({}, {})>>))),
     HttpResponse("ok", 200, Envelope("1", "OK",
        Arr(<<TokenRecord({}, {}), TokenRecord(TokenFields, {})>>))),
     HttpResponse("ok", 200, Envelope("1", "OK",
        Arr(<<TokenRecord({"tokenName", "balance"}, {"tokenSymbol", "contractAddress"})>>))),
     HttpResponse("ok", 200, Envelope("1", "OK", Arr(<<Null>>))),
     HttpResponse("ok", 200, Null)}

\* the completion service's body around one message content
Completion(content) ==
    Obj(<<P("id", Str("chatcmpl-1")),
          P("choices", Arr(<<Obj(<<P("index", Num(0)),
                                   P("message", Obj(<<P("role", Str("assistant")),
                                                      P("content", content)>>))>>)>>))>>)

ContentTexts ==
    {"", "assessment(5,Low)", "assessment(100,High)", "assessment(150,Medium)",
     "assessment(-1,Low)", "assessment(50,Extreme)",
     "{\"riskScore\":5,\"confidenceLevel\":\"Low\"}", "{}", "42", "[]",
     "Sure, here is the analysis", "Here is the JSON: assessment(5,Low)",
     "{\"riskScore\":5"}

GroqResponses ==
    {HttpResponse("down", 0, Undefined),
     HttpResponse("ok", 401, Obj(<<P("error", Str("Invalid API Key"))>>)),
     HttpResponse("ok", 429, Obj(<<P("error", Str("Rate limit reached"))>>)),
     HttpResponse("ok", 503, Str("Service Unavailable"))}
    \cup {HttpResponse("ok", 200, Completion(Str(t))) : t \in ContentTexts}
    \cup {HttpResponse("ok", 200, Completion(Null)),
          HttpResponse("ok", 200, Null),
          HttpResponse("ok", 200, Obj(<<P("id", Str("chatcmpl-1"))>>)),
          HttpResponse("ok", 200, Obj(<<P("choices", Arr(<<>>))>>)),
          HttpResponse("ok", 200, Obj(<<P("choices", Arr(<<Obj(<<P("index", Num(0))>>)>>))>>)),
          HttpResponse("ok", 200,
            Obj(<<P("choices", Arr(<<Obj(<<P("message",
                Obj(<<P("role", Str("assistant"))>>))>>)>>))>>))}

\* ------------------------------------------------------------------------
\* State
\* ------------------------------------------------------------------------

\* the invocations of analyzeWallet a run may hold
Ids == {1, 2}

VARIABLES
    callers,                \* the invocations that take place in this run
    clock,                  \* the wall clock, in milliseconds
    pc,                     \* where each invocation stands
    walletAddress,          \* analyzeWallet's argument
    balanceResponse,        \* fetchEtherscanData's locals: the .data of each
    txResponse,             \*   resolved explorer request
    tokenBalanceResponse,
    etherscanData,          \* analyzeWallet's local, fetchEtherscanData's result
    payload,                \* analyzeWithGroq's local, the body of the POST
    response,               \* analyzeWithGroq's local: the .data of the completion
    analysis,               \* analyzeWallet's local, analyzeWithGroq's result
    thrown,                 \* the error the catch clause of line 133 binds
    outcome,                \* the promise analyzeWallet returned
    requests,               \* per invocation and kind of request, the promises
                            \*   of the requests issued so far, in order: each
                            \*   "pending", "fulfilled" or "rejected"
    received,               \* per invocation, the responses its requests were
                            \*   answered with, in order
    known,                  \* per invocation, the number of transactions the
                            \*   explorer holds for the address, once it answered
    home                    \* the state of the Home component of the page

vars ==
    <<callers, clock, pc, walletAddress, balanceResponse, txResponse,
      tokenBalanceResponse, etherscanData, payload, response, analysis, thrown,
      outcome, requests, received, known, home>>

NoRequests == [balance |-> <<>>, txlist |-> <<>>, tokenbalance |-> <<>>, completion |-> <<>>]

\* useState('') / useState(false) / useState(null) / useState(null) of the
\* Home component (walletData: <<>> is null, <<r>> is the report r); no
\* submission has been made and none is awaited
InitHome ==
    [walletAddress |-> <<>>, isLoading |-> FALSE, error |-> Null, walletData |-> <<>>,
     awaiting |-> 0, submitted |-> 0]

\* offset: 20 of the txlist request (line 168): the page size asked for
PageSize == 20

\* the numbers of transactions the explorer may hold for an address when it
\* answers the txlist request (page 1, PageSize per page) with data: all of
\* them are in a list shorter than the page, a list that fills the page may
\* be the head of a longer history
KnownTotals(data) ==
    LET result == GetProp(data, "result")
    IN  IF ~IsArray(result) THEN {0}
        ELSE IF Len(result.a) < PageSize THEN {Len(result.a)}
        ELSE Len(result.a)..(PageSize + MaxOver)

InitLocals ==
    /\ clock = 0
    /\ pc = [i \in Ids |-> "idle"]
    /\ walletAddress = [i \in Ids |-> <<>>]
    /\ balanceResponse = [i \in Ids |-> Undefined]
    /\ txResponse = [i \in Ids |-> Undefined]
    /\ tokenBalanceResponse = [i \in Ids |-> Undefined]
    /\ etherscanData = [i \in Ids |-> Undefined]
    /\ payload = [i \in Ids |-> NoPayload]
    /\ response = [i \in Ids |-> Undefined]
    /\ analysis = [i \in Ids |-> Undefined]
    /\ thrown = [i \in Ids |-> NoError]
    /\ outcome = [i \in Ids |-> Pending]
    /\ requests = [i \in Ids |-> NoRequests]
    /\ received = [i \in Ids |-> <<>>]
    /\ known = [i \in Ids |-> 0]
    /\ home = InitHome

\* one caller
Init == callers = {1} /\ InitLocals

\* axios.get / axios.post is called: one more request of that kind
Issued(reqs, kind) == [reqs EXCEPT ![kind] = Append(@, "pending")]

\* the latest request of that kind settles
Settled(reqs, kind, how) == [reqs EXCEPT ![kind] = [@ EXCEPT ![Len(@)] = how]]

\* analyzeWallet without its address check: the fetch starts for any input
AnalyzeWalletUnchecked(i, address) ==
    /\ i \in callers
    /\ pc[i] = "idle"
    /\ walletAddress' = [walletAddress EXCEPT ![i] = address]
    /\ requests' = [requests EXCEPT ![i] = Issued(@, "balance")]
    /\ pc' = [pc EXCEPT ![i] = "awaitBalance"]
    /\ UNCHANGED <<callers, home, known, received, clock, balanceResponse, txResponse, tokenBalanceResponse,
                   etherscanData, payload, response, analysis, thrown, outcome>>

\* analyzeWallet(walletAddress) is called: the address check, then either the
\* throw, caught and rethrown in the same turn, or fetchEtherscanData up to
\* its first await
CallAnalyzeWallet(i, address) ==
    /\ i \in callers
    /\ pc[i] = "idle"
    /\ walletAddress' = [walletAddress EXCEPT ![i] = address]
    /\ IF ~MatchesAddressPattern(address)
       THEN /\ thrown' = [thrown EXCEPT ![i] = InvalidAddressError]
            /\ outcome' = [outcome EXCEPT ![i] = Rejected(CatchRethrow(InvalidAddressError))]
            /\ pc' = [pc EXCEPT ![i] = "rejected"]
            /\ UNCHANGED requests
       ELSE /\ requests' = [requests EXCEPT ![i] = Issued(@, "balance")]
            /\ pc' = [pc EXCEPT ![i] = "awaitBalance"]
            /\ UNCHANGED <<thrown, outcome>>
    /\ UNCHANGED <<callers, known, received, clock, balanceResponse, txResponse,
                   tokenBalanceResponse, etherscanData, payload, response, analysis>>

\* a caller other than the page calls analyzeWallet
AnalyzeWallet(i, address) ==
    /\ CallAnalyzeWallet(i, address)
    /\ UNCHANGED home

\* the promise analyzeWallet awaits rejects with error e: the invocation will
\* resume in its catch clause
Throw(i, e) ==
    /\ thrown' = [thrown EXCEPT ![i] = e]
    /\ pc' = [pc EXCEPT ![i] = "caught"]

\* a balance request whose failure is swallowed: the fetch goes on with a
\* zero balance
BalanceSettledLenient(i, resp) ==
    /\ pc[i] = "awaitBalance"
    /\ LET s == AxiosSettle(resp)
       IN  /\ balanceResponse' = [balanceResponse EXCEPT ![i] =
                    IF s.ok THEN s.data ELSE Envelope("1", "OK", Str("0"))]
           /\ requests' = [requests EXCEPT ![i] =
                    Issued(Settled(@, "balance", IF s.ok THEN "fulfilled" ELSE "rejected"),
                           "txlist")]
           /\ pc' = [pc EXCEPT ![i] = "awaitTx"]
    /\ received' = [received EXCEPT ![i] = Append(@, resp)]
    /\ UNCHANGED <<callers, home, known, clock, walletAddress, txResponse, tokenBalanceResponse,
                   etherscanData, payload, response, analysis, thrown, outcome>>

\* a fetchEtherscanData whose balanceResponse is one variable of the module,
\* written by every invocation
BalanceSettledShared(i, resp) ==
    /\ pc[i] = "awaitBalance"
    /\ LET s == AxiosSettle(resp)
       IN  IF s.ok
           THEN /\ balanceResponse' = [j \in Ids |-> s.data]
                /\ requests' = [requests EXCEPT ![i] =
                        Issued(Settled(@, "balance", "fulfilled"), "txlist")]
                /\ pc' = [pc EXCEPT ![i] = "awaitTx"]
                /\ UNCHANGED thrown
           ELSE /\ Throw(i, s.error)
                /\ requests' = [requests EXCEPT ![i] = Settled(@, "balance", "rejected")]
                /\ UNCHANGED balanceResponse
    /\ received' = [received EXCEPT ![i] = Append(@, resp)]
    /\ UNCHANGED <<callers, home, known, clock, walletAddress, txResponse,
                   tokenBalanceResponse, etherscanData, payload, response, analysis,
                   outcome>>

\* a balance request that is issued once more after it failed
BalanceSettledRetry(i, resp) ==
    /\ pc[i] = "awaitBalance"
    /\ LET s == AxiosSettle(resp)
       IN  IF s.ok
           THEN /\ balanceResponse' = [balanceResponse EXCEPT ![i] = s.data]
                /\ requests' = [requests EXCEPT ![i] =
                        Issued(Settled(@, "balance", "fulfilled"), "txlist")]
                /\ pc' = [pc EXCEPT ![i] = "awaitTx"]
                /\ UNCHANGED thrown
           ELSE IF Len(requests[i].balance) < 2
           THEN /\ requests' = [requests EXCEPT ![i] =
                        Issued(Settled(@, "balance", "rejected"), "balance")]
                /\ UNCHANGED <<balanceResponse, thrown, pc>>
           ELSE /\ Throw(i, s.error)
                /\ requests' = [requests EXCEPT ![i] = Settled(@, "balance", "rejected")]
                /\ UNCHANGED balanceResponse
    /\ received' = [received EXCEPT ![i] = Append(@, resp)]
    /\ UNCHANGED <<callers, home, known, clock, walletAddress, txResponse, tokenBalanceResponse,
                   etherscanData, payload, response, analysis, outcome>>

\* the balance request settles (line 149); on success the transaction list
\* is requested (line 160)
BalanceSettled(i, resp) ==
    /\ pc[i] = "awaitBalance"
    /\ LET s == AxiosSettle(resp)
       IN  IF s.ok
           THEN /\ balanceResponse' = [balanceResponse EXCEPT ![i] = s.data]
                /\ requests' = [requests EXCEPT ![i] =
                        Issued(Settled(@, "balance", "fulfilled"), "txlist")]
                /\ pc' = [pc EXCEPT ![i] = "awaitTx"]
                /\ UNCHANGED thrown
           ELSE /\ Throw(i, s.error)
                /\ requests' = [requests EXCEPT ![i] = Settled(@, "balance", "rejected")]
                /\ UNCHANGED balanceResponse
    /\ received' = [received EXCEPT ![i] = Append(@, resp)]
    /\ UNCHANGED <<callers, home, known, clock, walletAddress, txResponse, tokenBalanceResponse,
                   etherscanData, payload, response, analysis, outcome>>

\* the transaction list request settles; on success the token balance is
\* requested (line 175)
TxSettled(i, resp) ==
    /\ pc[i] = "awaitTx"
    /\ LET s == AxiosSettle(resp)
       IN  IF s.ok
           THEN /\ txResponse' = [txResponse EXCEPT ![i] = s.data]
                /\ requests' = [requests EXCEPT ![i] =
                        Issued(Settled(@, "txlist", "fulfilled"), "tokenbalance")]
                /\ pc' = [pc EXCEPT ![i] = "awaitToken"]
                /\ \E k \in KnownTotals(s.data) : known' = [known EXCEPT ![i] = k]
                /\ UNCHANGED thrown
           ELSE /\ Throw(i, s.error)
                /\ requests' = [requests EXCEPT ![i] = Settled(@, "txlist", "rejected")]
                /\ UNCHANGED <<txResponse, known>>
    /\ received' = [received EXCEPT ![i] = Append(@, resp)]
    /\ UNCHANGED <<callers, home, clock, walletAddress, balanceResponse, tokenBalanceResponse,
                   etherscanData, payload, response, analysis, outcome>>

\* the token balance request settles; on success the three responses are
\* formatted and fetchEtherscanData returns, or throws while formatting
TokenSettled(i, resp) ==
    /\ pc[i] = "awaitToken"
    /\ LET s == AxiosSettle(resp)
           r == FormatEtherscanData(balanceResponse[i], txResponse[i], s.data)
       IN  IF ~s.ok
           THEN /\ Throw(i, s.error)
                /\ requests' = [requests EXCEPT ![i] = Settled(@, "tokenbalance", "rejected")]
                /\ UNCHANGED <<tokenBalanceResponse, etherscanData>>
           ELSE /\ tokenBalanceResponse' = [tokenBalanceResponse EXCEPT ![i] = s.data]
                /\ requests' = [requests EXCEPT ![i] = Settled(@, "tokenbalance", "fulfilled")]
                /\ IF r.ok
                   THEN /\ etherscanData' = [etherscanData EXCEPT ![i] = r.value]
                        /\ pc' = [pc EXCEPT ![i] = "fetched"]
                        /\ UNCHANGED thrown
                   ELSE /\ Throw(i, r.error)
                        /\ UNCHANGED etherscanData
    /\ received' = [received EXCEPT ![i] = Append(@, resp)]
    /\ UNCHANGED <<callers, home, known, clock, walletAddress, balanceResponse, txResponse,
                   payload, response, analysis, outcome>>

\* an analyzeWithGroq that keeps one conversation for all its calls: the
\* messages of the payloads built so far come before the two of this call
CallGroqAccumulating(i) ==
    /\ pc[i] = "fetched"
    /\ LET built == BuildPayload(walletAddress[i], etherscanData[i])
           earlier == IF \E j \in Ids : payload[j] # NoPayload
                      THEN payload[CHOOSE j \in Ids : payload[j] # NoPayload].messages
                      ELSE <<>>
       IN  payload' = [payload EXCEPT ![i] = [built EXCEPT !.messages = earlier \o @]]
    /\ requests' = [requests EXCEPT ![i] = Issued(@, "completion")]
    /\ pc' = [pc EXCEPT ![i] = "awaitGroq"]
    /\ UNCHANGED <<callers, home, known, received, clock, walletAddress, balanceResponse,
                   txResponse, tokenBalanceResponse, etherscanData, response, analysis,
                   thrown, outcome>>

\* analyzeWallet resumes with the snapshot and calls analyzeWithGroq, which
\* builds the payload and posts it (lines 223-266)
CallGroq(i) ==
    /\ pc[i] = "fetched"
    /\ payload' = [payload EXCEPT ![i] = BuildPayload(walletAddress[i], etherscanData[i])]
    /\ requests' = [requests EXCEPT ![i] = Issued(@, "completion")]
    /\ pc' = [pc EXCEPT ![i] = "awaitGroq"]
    /\ UNCHANGED <<callers, home, known, received, clock, walletAddress, balanceResponse, txResponse,
                   tokenBalanceResponse, etherscanData, response, analysis, thrown,
                   outcome>>

\* the completion request settles; on success its body is read and parsed
\* and analyzeWithGroq returns the parsed value, or throws
GroqSettled(i, resp) ==
    /\ pc[i] = "awaitGroq"
    /\ LET s == AxiosSettle(resp)
           r == ParseAnalysis(s.data)
       IN  IF ~s.ok
           THEN /\ Throw(i, s.error)
                /\ requests' = [requests EXCEPT ![i] = Settled(@, "completion", "rejected")]
                /\ UNCHANGED <<response, analysis>>
           ELSE /\ response' = [response EXCEPT ![i] = s.data]
                /\ requests' = [requests EXCEPT ![i] = Settled(@, "completion", "fulfilled")]
                /\ IF r.ok
                   THEN /\ analysis' = [analysis EXCEPT ![i] = r.value]
                        /\ pc' = [pc EXCEPT ![i] = "analyzed"]
                        /\ UNCHANGED thrown
                   ELSE /\ Throw(i, r.error)
                        /\ UNCHANGED analysis
    /\ received' = [received EXCEPT ![i] = Append(@, resp)]
    /\ UNCHANGED <<callers, home, known, clock, walletAddress, balanceResponse, txResponse,
                   tokenBalanceResponse, etherscanData, payload, outcome>>

\* analyzeWallet resumes with the analysis and returns the report
Assemble(i) ==
    /\ pc[i] = "analyzed"
    /\ outcome' = [outcome EXCEPT ![i] =
            Fulfilled(AssembleReport(walletAddress[i], etherscanData[i], analysis[i], clock))]
    /\ pc' = [pc EXCEPT ![i] = "resolved"]
    /\ UNCHANGED <<callers, home, known, received, clock, walletAddress, balanceResponse, txResponse,
                   tokenBalanceResponse, etherscanData, payload, response, analysis,
                   thrown, requests>>

\* analyzeWallet resumes in its catch clause and rethrows
Catch(i) ==
    /\ pc[i] = "caught"
    /\ outcome' = [outcome EXCEPT ![i] = Rejected(CatchRethrow(thrown[i]))]
    /\ pc' = [pc EXCEPT ![i] = "rejected"]
    /\ UNCHANGED <<callers, home, known, received, clock, walletAddress, balanceResponse, txResponse,
                   tokenBalanceResponse, etherscanData, payload, response, analysis,
                   thrown, requests>>

\* time passes
Tick ==
    /\ clock < MaxClock
    /\ clock' = clock + 1
    /\ UNCHANGED <<callers, home, known, received, pc, walletAddress, balanceResponse, txResponse,
                   tokenBalanceResponse, etherscanData, payload, response, analysis,
                   thrown, outcome, requests>>

Next ==
    \/ \E i \in Ids, a \in AddressInputs : AnalyzeWallet(i, a)
    \/ \E i \in Ids, r \in BalanceResponses : BalanceSettled(i, r)
    \/ \E i \in Ids, r \in TxResponses : TxSettled(i, r)
    \/ \E i \in Ids, r \in TokenResponses : TokenSettled(i, r)
    \/ \E i \in Ids : CallGroq(i)
    \/ \E i \in Ids, r \in GroqResponses : GroqSettled(i, r)
    \/ \E i \in Ids : Assemble(i)
    \/ \E i \in Ids : Catch(i)
    \/ Tick

Spec == Init /\ [][Next]_vars

\* two callers, whose invocations interleave at every await
InitPair == callers = {1, 2} /\ InitLocals

\* what two concurrent callers pass and are answered: two addresses of the
\* right format and one of the wrong one, and per request a failure and
\* one or two successes
PairAddresses == ValidAddresses \cup {Prefix0x \o Rep("b", HexLen), Prefix0x}

PairBalanceResponses ==
    {HttpResponse("down", 0, Undefined),
     HttpResponse("ok", 200, Envelope("1", "OK", Str("1000000000000000000"))),
     HttpResponse("ok", 200, Envelope("1", "OK", Str("0")))}

PairTxResponses ==
    {HttpResponse("ok", 500, Str("Internal Server Error")),
     HttpResponse("ok", 200, Envelope("1", "OK", TxList(1, {"functionName"}, {})))}

PairTokenResponses ==
    {HttpResponse("ok", 200, Envelope("0", "No transactions found", Arr(<<>>)))}

PairGroqResponses ==
    {HttpResponse("ok", 429, Obj(<<P("error", Str("Rate limit reached"))>>)),
     HttpResponse("ok", 200, Completion(Str("assessment(5,Low)"))),
     HttpResponse("ok", 200, Completion(Str("Sure, here is the analysis")))}

NextPair ==
    \/ \E i \in Ids, a \in PairAddresses : AnalyzeWallet(i, a)
    \/ \E i \in Ids, r \in PairBalanceResponses : BalanceSettled(i, r)
    \/ \E i \in Ids, r \in PairTxResponses : TxSettled(i, r)
    \/ \E i \in Ids, r \in PairTokenResponses : TokenSettled(i, r)
    \/ \E i \in Ids : CallGroq(i)
    \/ \E i \in Ids, r \in PairGroqResponses : GroqSettled(i, r)
    \/ \E i \in Ids : Assemble(i)
    \/ \E i \in Ids : Catch(i)
    \/ Tick

SpecPair == InitPair /\ [][NextPair]_vars

\* ------------------------------------------------------------------------
\* The page (app/page.tsx): the Home component and its handlers
\* ------------------------------------------------------------------------

\* submissions a run may hold: one for each invocation of analyzeWallet
MaxSubmit == Cardinality(Ids)

\* err instanceof Error
InstanceofError(e) == e.name \in {"Error", "TypeError", "SyntaxError", "AxiosError"}

\* err instanceof Error ? err.message : 'An unknown error occurred' (line 85)
ErrorText(e) == IF InstanceofError(e) THEN e.message ELSE "An unknown error occurred"

\* onChange of the input: setWalletAddress(e.target.value) (line 111)
SetWalletAddress(a) ==
    /\ home' = [home EXCEPT !.walletAddress = a]
    /\ UNCHANGED <<callers, clock, pc, walletAddress, balanceResponse, txResponse,
                   tokenBalanceResponse, etherscanData, payload, response, analysis,
                   thrown, outcome, requests, received, known>>

\* a catch clause that leaves the data of the last report in place
FailureKeepsData(h, e) ==
    [h EXCEPT !.error = Str(ErrorText(e)), !.isLoading = FALSE, !.awaiting = 0]

\* the catch and finally clauses of handleAnalyze for the error e
Failure(h, e) ==
    [h EXCEPT !.error = Str(ErrorText(e)), !.walletData = <<>>, !.isLoading = FALSE,
              !.awaiting = 0]

\* the form is submitted (the button is enabled only while isLoading is
\* false, line 117): handleAnalyze up to its await, or through its catch and
\* finally clauses when the text does not match the pattern
HandleAnalyze ==
    /\ ~home.isLoading
    /\ home.submitted < MaxSubmit
    /\ LET i == home.submitted + 1
           started == [home EXCEPT !.isLoading = TRUE, !.error = Null,
                                   !.submitted = @ + 1]
       IN  IF ~MatchesAddressPattern(home.walletAddress)
           THEN /\ home' = Failure(started, InvalidAddressError)
                /\ UNCHANGED <<callers, clock, pc, walletAddress, balanceResponse,
                               txResponse, tokenBalanceResponse, etherscanData, payload,
                               response, analysis, thrown, outcome, requests, received,
                               known>>
           ELSE /\ home' = [started EXCEPT !.awaiting = i]
                /\ CallAnalyzeWallet(i, home.walletAddress)

\* the promise handleAnalyze awaits has settled: it resumes after line 82
\* with the report, or in its catch clause, and then runs finally
HandleAnalyzeResumes(i) ==
    /\ home.awaiting = i
    /\ outcome[i].state # "pending"
    /\ home' = IF outcome[i].state = "fulfilled"
               THEN [home EXCEPT !.walletData = <<outcome[i].report>>,
                                 !.isLoading = FALSE, !.awaiting = 0]
               ELSE Failure(home, outcome[i].error)
    /\ UNCHANGED <<callers, clock, pc, walletAddress, balanceResponse, txResponse,
                   tokenBalanceResponse, etherscanData, payload, response, analysis,
                   thrown, outcome, requests, received, known>>

\* the page is the only caller
InitPage == callers = Ids /\ InitLocals

\* the texts typed into the input
PageAddresses == ValidAddresses \cup {Prefix0x \o Rep("a", HexLen - 1)}

NextPage ==
    \/ \E a \in PageAddresses : SetWalletAddress(a)
    \/ HandleAnalyze
    \/ \E i \in Ids, r \in PairBalanceResponses : BalanceSettled(i, r)
    \/ \E i \in Ids, r \in PairTxResponses : TxSettled(i, r)
    \/ \E i \in Ids, r \in PairTokenResponses : TokenSettled(i, r)
    \/ \E i \in Ids : CallGroq(i)
    \/ \E i \in Ids, r \in PairGroqResponses : GroqSettled(i, r)
    \/ \E i \in Ids : Assemble(i)
    \/ \E i \in Ids : Catch(i)
    \/ \E i \in Ids : HandleAnalyzeResumes(i)
    \/ Tick

\* a settled promise's continuation is a microtask, which always runs
SpecPage ==
    InitPage /\ [][NextPage]_vars /\ WF_vars(\E i \in Ids : HandleAnalyzeResumes(i))

\* ------------------------------------------------------------------------
\* Properties
\* ------------------------------------------------------------------------

Range(f) == {f[x] : x \in DOMAIN f}

RequestKinds == {"balance", "txlist", "tokenbalance", "completion"}

ExplorerKinds == {"balance", "txlist", "tokenbalance"}

\* C1: an input that does not match ^0x[a-fA-F0-9]{40}$ is rejected with the
\* invalid-address error and no request of any kind is ever issued for it
C1_InvalidAddressRejectedWithoutCalls ==
    \A i \in Ids :
        (pc[i] # "idle" /\ ~MatchesAddressPattern(walletAddress[i])) =>
            /\ pc[i] = "rejected"
            /\ outcome[i] = Rejected(InvalidAddressError)
            /\ requests[i] = NoRequests

\* an input of the right length and prefix with one non-hexadecimal
\* character has been rejected
C1_Witness ==
    \E i \in Ids :
        /\ pc[i] = "rejected"
        /\ Len(walletAddress[i]) = 2 + HexLen
        /\ walletAddress[i][1] = "0" /\ walletAddress[i][2] = "x"
        /\ ~MatchesAddressPattern(walletAddress[i])
        /\ requests[i] = NoRequests

\* some stage of the invocation has thrown
Failed(i) == thrown[i] # NoError

\* what each stage leaves behind shows the order of the stages: a request
\* to the explorer only for a validated address, a payload only once the
\* snapshot exists, the completion request only with the payload built, a
\* parsed analysis only from a fulfilled completion request, a report only
\* from a parsed analysis
StagesInOrder(i) ==
    /\ requests[i].balance # <<>> => MatchesAddressPattern(walletAddress[i])
    /\ etherscanData[i] # Undefined =>
            \A k \in ExplorerKinds : requests[i][k] = <<"fulfilled">>
    /\ payload[i] # NoPayload => etherscanData[i] # Undefined
    /\ requests[i].completion # <<>> =>
            payload[i] = BuildPayload(walletAddress[i], etherscanData[i])
    /\ analysis[i] # Undefined => requests[i].completion = <<"fulfilled">>
    /\ outcome[i].state = "fulfilled" =>
            /\ analysis[i] # Undefined
            /\ outcome[i].report.analysis = analysis[i]
            /\ outcome[i].report.etherscanData = etherscanData[i]

\* a failed invocation returns no report, and the error its caller receives
\* is the error the failing stage threw
FailurePropagates(i) ==
    Failed(i) =>
        /\ outcome[i].state # "fulfilled"
        /\ outcome[i].report = NoReport
        /\ pc[i] \in {"caught", "rejected"}
        /\ pc[i] = "rejected" => outcome[i] = Rejected(thrown[i])

\* once a stage has failed no later stage runs: nothing but the rejection of
\* the returned promise changes
FailureAborts(i) ==
    Failed(i) =>
        /\ thrown'[i] = thrown[i]
        /\ requests'[i] = requests[i]
        /\ etherscanData'[i] = etherscanData[i]
        /\ payload'[i] = payload[i]
        /\ analysis'[i] = analysis[i]
        /\ outcome'[i].state # "fulfilled"

\* C2: the stages run in the order validate, fetch, build prompt, complete,
\* parse, assemble; a failing stage aborts the invocation, its error reaches
\* the caller unchanged, and no report is returned
C2_StagesInOrderFailureAborts ==
    /\ [](\A i \in Ids : StagesInOrder(i) /\ FailurePropagates(i))
    /\ [][\A i \in Ids : FailureAborts(i)]_vars

\* an invocation that got as far as parsing has been rejected with the
\* parse stage's error, after a snapshot and a payload were built
C2_Witness ==
    \E i \in Ids :
        /\ pc[i] = "rejected"
        /\ requests[i].completion = <<"fulfilled">>
        /\ etherscanData[i] # Undefined
        /\ outcome[i].error = thrown[i]
        /\ thrown[i].message = "Failed to parse analysis response"

AssessmentFields ==
    {"isFraudulent", "riskScore", "confidenceLevel", "flags", "behaviors",
     "summary", "recommendations", "activityPatterns"}

ConfidenceLevels == {"Low", "Medium", "High"}

\* the assessment shape: every required field present, riskScore a number
\* in [0, 100], confidenceLevel one of the three literals
ValidAssessment(v) ==
    /\ v.t = "object"
    /\ \A f \in AssessmentFields : GetProp(v, f) # Undefined
    /\ GetProp(v, "riskScore").t = "number"
    /\ GetProp(v, "riskScore").n \in 0..100
    /\ GetProp(v, "confidenceLevel").t = "string"
    /\ GetProp(v, "confidenceLevel").s \in ConfidenceLevels

\* C3: every report analyzeWallet returns carries an assessment with all
\* required fields, riskScore in [0, 100] and confidenceLevel one of "Low",
\* "Medium", "High" (the parse step having rejected every other payload)
C3_ReportAssessmentValid ==
    \A i \in Ids :
        outcome[i].state = "fulfilled" => ValidAssessment(outcome[i].report.analysis)

\* the snapshot's records and the explorer's records they were made from
Recent(i) == GetProp(GetProp(etherscanData[i], "transactions"), "recent").a

ExplorerTxs(i) == GetProp(txResponse[i], "result").a

Populated(v) == ~Nullish(v)

\* C4, as claimed: a snapshot has at most 20 recentTransactions and every
\* record has all ten fields populated, whatever the explorer record omits
C4_AllTenFieldsPopulated ==
    \A i \in Ids :
        etherscanData[i] # Undefined =>
            LET recent == Recent(i)
            IN  /\ Len(recent) <= 20
                /\ \A j \in 1..Len(recent) : \A f \in TxFields :
                        Populated(GetProp(recent[j], f))

\* C4, amended: a snapshot has at most 20 recentTransactions, the first 20
\* of the explorer's list in order; in every record methodId and
\* functionName are populated, with "" where the explorer record omits them
\* or has them empty, and each of the other eight fields is the explorer
\* record's field as it is, populated exactly when the explorer record has it
C4_OptionalFieldsDefaulted ==
    \A i \in Ids :
        etherscanData[i] # Undefined =>
            LET recent == Recent(i)
                txs == ExplorerTxs(i)
            IN  /\ Len(recent) <= 20
                /\ Len(recent) = IF Len(txs) < 20 THEN Len(txs) ELSE 20
                /\ \A j \in 1..Len(recent) : \A f \in TxFields :
                    LET got == GetProp(recent[j], f)
                        given == GetProp(txs[j], f)
                    IN  IF f \in {"methodId", "functionName"}
                        THEN /\ Populated(got)
                             /\ got = IF given \in {Undefined, Null, Str("")}
                                      THEN Str("") ELSE given
                        ELSE got = given

\* the explorer returned more than 20 records, the first of them without
\* methodId, and the snapshot holds 20 with methodId ""
C4_Witness ==
    \E i \in Ids :
        /\ etherscanData[i] # Undefined
        /\ Len(ExplorerTxs(i)) > 20
        /\ Len(Recent(i)) = 20
        /\ GetProp(ExplorerTxs(i)[1], "methodId") = Undefined
        /\ GetProp(Recent(i)[1], "methodId") = Str("")
        /\ GetProp(Recent(i)[1], "to") = Undefined

\* the token entries of the snapshot and the explorer's token result
SnapshotTokens(i) == GetProp(etherscanData[i], "tokenBalances")

TokenResult(i) == GetProp(tokenBalanceResponse[i], "result")

\* the token balance request was answered with a body
TokenAnswered(i) ==
    requests[i].tokenbalance = <<"fulfilled">> /\ ~Nullish(tokenBalanceResponse[i])

\* the balance and transaction responses can be formatted
OthersFormat(i) ==
    FormatEtherscanData(balanceResponse[i], txResponse[i], Envelope("1", "OK", Arr(<<>>))).ok

\* the snapshot's field for a token field of the explorer, and its default
TokenDefault ==
    [tokenName |-> "Unknown", tokenSymbol |-> "Unknown", balance |-> "0",
     contractAddress |-> ""]

TokenTarget ==
    [tokenName |-> "tokenName", tokenSymbol |-> "tokenSymbol",
     balance |-> "tokenQuantity", contractAddress |-> "tokenContractAddress"]

\* C5: a token balance result that is absent or no array gives a snapshot
\* with empty tokenBalances and never makes the fetch fail; an array gives
\* one entry per token with all four fields present, missing values replaced
\* by "Unknown", "Unknown", "0" and ""
C5_TokenBalancesNormalised ==
    \A i \in Ids :
        /\ (TokenAnswered(i) /\ ~IsArray(TokenResult(i))) =>
                /\ OthersFormat(i) => etherscanData[i] # Undefined
                /\ etherscanData[i] # Undefined => SnapshotTokens(i) = Arr(<<>>)
        /\ (etherscanData[i] # Undefined /\ IsArray(TokenResult(i))) =>
                LET tokens == SnapshotTokens(i)
                    given == TokenResult(i).a
                IN  /\ tokens.t = "array"
                    /\ Len(tokens.a) = Len(given)
                    /\ \A j \in 1..Len(given) : \A f \in TokenFields :
                        LET got == GetProp(tokens.a[j], TokenTarget[f])
                        IN  /\ Populated(got)
                            /\ GetProp(given[j], f) = Undefined => got = Str(TokenDefault[f])
                            /\ Truthy(GetProp(given[j], f)) => got = GetProp(given[j], f)

\* a snapshot was built from the scalar token result "0", and another from
\* a token record without its name and quantity
C5_Witness ==
    \E i \in Ids :
        /\ etherscanData[i] # Undefined
        /\ \/ TokenResult(i) = Str("0") /\ SnapshotTokens(i) = Arr(<<>>)
           \/ /\ IsArray(TokenResult(i)) /\ Len(TokenResult(i).a) = 1
              /\ GetProp(TokenResult(i).a[1], "tokenName") = Undefined
              /\ GetProp(SnapshotTokens(i).a[1], "tokenName") = Str("Unknown")
              /\ GetProp(SnapshotTokens(i).a[1], "tokenQuantity") = Str("0")

\* C6: the completion service is called only after all three explorer
\* requests have succeeded; if any of them fails, no snapshot is produced,
\* the completion service is never called and the invocation returns no report
C6_ExplorerJoin ==
    \A i \in Ids :
        /\ requests[i].completion # <<>> =>
                \A k \in ExplorerKinds : requests[i][k] = <<"fulfilled">>
        /\ (\E k \in ExplorerKinds : "rejected" \in Range(requests[i][k])) =>
                /\ etherscanData[i] = Undefined
                /\ requests[i].completion = <<>>
                /\ outcome[i].state # "fulfilled"
                /\ pc[i] \in {"caught", "rejected"}

\* the third explorer request failed after the first two succeeded, and the
\* invocation was rejected without a completion request
C6_Witness ==
    \E i \in Ids :
        /\ requests[i].balance = <<"fulfilled">>
        /\ requests[i].txlist = <<"fulfilled">>
        /\ requests[i].tokenbalance = <<"rejected">>
        /\ pc[i] = "rejected"
        /\ requests[i].completion = <<>>

\* the content of the first choice, where the body has one
Content(i) == ReadContent(response[i]).value

\* the completion call succeeded and its content is a text that is no JSON
NonJsonContent(i) ==
    /\ requests[i].completion = <<"fulfilled">>
    /\ ReadContent(response[i]).ok
    /\ Content(i).t = "string"
    /\ Content(i).s # ""
    /\ ~JSONParse(Content(i)).ok

\* an error carries a value when the value is attached to it
Carries(error, v) == \E k \in 1..Len(error.attached) : error.attached[k] = v

\* new Error('Failed to parse analysis response'), the spec's MalformedAssessment
MalformedAssessment == Err("Error", "Failed to parse analysis response", "", 0, <<>>)

\* C7, as claimed: non-JSON content rejects the invocation with the
\* malformed-assessment error, which carries the raw content, and no report
\* is constructed
C7_MalformedCarriesPayload ==
    \A i \in Ids :
        NonJsonContent(i) =>
            /\ outcome[i].state # "fulfilled"
            /\ pc[i] = "rejected" =>
                    /\ outcome[i].error.message = MalformedAssessment.message
                    /\ Carries(outcome[i].error, Content(i))

\* C7, amended: non-JSON content rejects the invocation with
\* Error('Failed to parse analysis response'), which carries neither the raw
\* content nor the error JSON.parse threw, and no report is constructed
C7_MalformedRejectedWithoutPayload ==
    \A i \in Ids :
        NonJsonContent(i) =>
            /\ pc[i] \in {"caught", "rejected"}
            /\ thrown[i] = MalformedAssessment
            /\ ~Carries(thrown[i], Content(i))
            /\ analysis[i] = Undefined
            /\ outcome[i].state # "fulfilled"
            /\ outcome[i].report = NoReport
            /\ pc[i] = "rejected" => outcome[i] = Rejected(MalformedAssessment)

\* prose before a well-formed assessment: the invocation was rejected
C7_Witness ==
    \E i \in Ids :
        /\ NonJsonContent(i)
        /\ Content(i) = Str("Here is the JSON: assessment(5,Low)")
        /\ pc[i] = "rejected"
        /\ outcome[i].error = MalformedAssessment

\* the completion call succeeded with a body that has no content: no
\* choices, no first choice, no message, no content, or the empty text
EmptyBody(i) ==
    /\ requests[i].completion = <<"fulfilled">>
    /\ \/ ~ReadContent(response[i]).ok
       \/ Content(i) \in {Undefined, Null, Str("")}

\* the completion call itself failed
TransportFailed(i) == requests[i].completion = <<"rejected">>

\* C8, as claimed: a failed completion call and an empty completion body
\* each reject the invocation with an error of their own, neither of them
\* the malformed-assessment error
C8_ThreeErrorKinds ==
    \A i \in Ids :
        /\ (TransportFailed(i) /\ pc[i] = "rejected") =>
                /\ outcome[i].state = "rejected"
                /\ outcome[i].error # MalformedAssessment
        /\ (EmptyBody(i) /\ pc[i] \in {"rejected", "resolved"}) =>
                /\ outcome[i].state = "rejected"
                /\ outcome[i].error # MalformedAssessment

\* C8, amended: the model stage reports two error kinds. A failed completion
\* call rejects with the AxiosError of that call, which is not the
\* parse-failure error. A body without choices, without a first choice,
\* without a message, without content or with empty content rejects with
\* Error('Failed to parse analysis response'), the same error as non-JSON
\* content. A body whose content is null is no error: the report is returned
\* with a null analysis.
C8_TwoErrorKinds ==
    \A i \in Ids :
        /\ (TransportFailed(i) /\ pc[i] = "rejected") =>
                /\ outcome[i].state = "rejected"
                /\ outcome[i].error.name = "AxiosError"
                /\ outcome[i].error # MalformedAssessment
        /\ (EmptyBody(i) /\ Content(i) # Null /\ pc[i] = "rejected") =>
                outcome[i] = Rejected(MalformedAssessment)
        /\ (EmptyBody(i) /\ Content(i) # Null) => pc[i] \in {"caught", "rejected"}
        /\ (EmptyBody(i) /\ ReadContent(response[i]).ok /\ Content(i) = Null) =>
                /\ pc[i] \in {"analyzed", "resolved"}
                /\ analysis[i] = Null
                /\ pc[i] = "resolved" => outcome[i].report.analysis = Null

\* a body without choices has been rejected with the parse-failure error
C8_Witness ==
    \E i \in Ids :
        /\ EmptyBody(i)
        /\ GetProp(response[i], "choices") = Undefined
        /\ ~Nullish(response[i])
        /\ pc[i] = "rejected"
        /\ outcome[i] = Rejected(MalformedAssessment)

\* the top-level response of a successful explorer request is malformed: no
\* body, a balance result that is no string, or a transaction list result
\* that is no array
MalformedExplorerData(i) ==
    \/ /\ requests[i].balance = <<"fulfilled">>
       /\ \/ Nullish(balanceResponse[i])
          \/ GetProp(balanceResponse[i], "result").t # "string"
    \/ /\ requests[i].txlist = <<"fulfilled">>
       /\ \/ Nullish(txResponse[i])
          \/ GetProp(txResponse[i], "result").t # "array"
    \/ /\ requests[i].tokenbalance = <<"fulfilled">>
       /\ Nullish(tokenBalanceResponse[i])

\* C9: an explorer failure (no connection, an error status, a malformed
\* top-level response) rejects the invocation with an error that has its
\* cause attached and never yields a snapshot built from the malformed data
C9_ExplorerFailureSurfaces ==
    \A i \in Ids :
        ((\E k \in ExplorerKinds : requests[i][k] = <<"rejected">>)
            \/ MalformedExplorerData(i)) =>
                /\ etherscanData[i] = Undefined
                /\ requests[i].completion = <<>>
                /\ outcome[i].state # "fulfilled"
                /\ pc[i] = "rejected" => outcome[i].error.name \in {"AxiosError", "TypeError"}

\* C10: each of the four requests is issued at most once in an invocation,
\* and an error ends the invocation: after it no request is issued and the
\* rejection, once made, stays
C10_NoRetry ==
    /\ [](\A i \in Ids : \A k \in RequestKinds : Len(requests[i][k]) <= 1)
    /\ [][\A i \in Ids :
            /\ Failed(i) => requests'[i] = requests[i] /\ thrown'[i] = thrown[i]
            /\ outcome[i].state = "rejected" => outcome'[i] = outcome[i] /\ pc'[i] = pc[i]]_vars

\* all four requests were issued, the last one failed, and the invocation
\* was rejected with four requests on record
C10_Witness ==
    \E i \in Ids :
        /\ \A k \in ExplorerKinds : requests[i][k] = <<"fulfilled">>
        /\ requests[i].completion = <<"rejected">>
        /\ pc[i] = "rejected"

\* C11: a returned report has the input string as address, isValid true, the
\* explorer's balance result as balance, and the value decoded from the
\* completion's content as analysis; its timestamp is the clock reading of
\* the step that returns it, a step taken after the completion call was
\* fulfilled, and the returned report never changes afterwards
C11_ReportAssembled ==
    /\ [](\A i \in Ids :
            outcome[i].state = "fulfilled" =>
                /\ outcome[i].report.address = walletAddress[i]
                /\ outcome[i].report.isValid = TRUE
                /\ GetProp(outcome[i].report.etherscanData, "balance")
                        = GetProp(balanceResponse[i], "result")
                /\ ReadContent(response[i]).ok
                /\ JSONParse(Content(i)).ok
                /\ outcome[i].report.analysis = JSONParse(Content(i)).value
                /\ outcome[i].error = NoError)
    /\ [][\A i \in Ids :
            /\ (outcome[i].state # "fulfilled" /\ outcome'[i].state = "fulfilled") =>
                    /\ requests[i].completion = <<"fulfilled">>
                    /\ analysis[i] # Undefined
                    /\ outcome'[i].report.timestamp = ToISOString(clock)
            /\ outcome[i].state = "fulfilled" => outcome'[i] = outcome[i]]_vars

\* the end-to-end case: balance "1000000000000000000", one transaction, no
\* tokens, an assessment with riskScore 5, returned after the clock advanced
C11_Witness ==
    \E i \in Ids :
        /\ outcome[i].state = "fulfilled"
        /\ MatchesAddressPattern(outcome[i].report.address)
        /\ GetProp(outcome[i].report.etherscanData, "balance") = Str("1000000000000000000")
        /\ Len(Recent(i)) = 1
        /\ SnapshotTokens(i) = Arr(<<>>)
        /\ GetProp(outcome[i].report.analysis, "riskScore") = Num(5)
        /\ outcome[i].report.timestamp = ToISOString(1)

Count(i) == GetProp(GetProp(etherscanData[i], "transactions"), "count")

\* the number of snapshot records is never above the snapshot's count
CountCoversRecent ==
    \A i \in Ids : etherscanData[i] # Undefined => Count(i).n >= Len(Recent(i))

\* C14, as claimed: the count of every snapshot is the number of transactions
\* the explorer holds for the address, and is at least the number of records
\* in the snapshot
C14_CountIsExplorerTotal ==
    /\ \A i \in Ids : etherscanData[i] # Undefined => Count(i) = Num(known[i])
    /\ CountCoversRecent

\* C12: the request bodies two invocations build for the same address and the
\* same snapshot are identical, whatever was built before; every body holds
\* the system message and then the user message naming the address, the
\* model "llama3-70b-8192", temperature 0.2 and response_format json_object
C12_BuildRequestDeterministic ==
    /\ \A i, j \in Ids :
            (/\ payload[i] # NoPayload
             /\ payload[j] # NoPayload
             /\ walletAddress[i] = walletAddress[j]
             /\ etherscanData[i] = etherscanData[j]) => payload[i] = payload[j]
    /\ \A i \in Ids :
            payload[i] # NoPayload =>
                /\ Len(payload[i].messages) = 2
                /\ payload[i].messages[1].role = "system"
                /\ payload[i].messages[2].role = "user"
                /\ payload[i].messages[2].content.address = walletAddress[i]
                /\ payload[i].model = "llama3-70b-8192"
                /\ payload[i].temperature = "0.2"
                /\ payload[i].response_format = [type |-> "json_object"]

\* the second invocation builds its request for the address and snapshot of
\* the first one, which has returned its report by then
C12_Witness ==
    /\ pc[1] = "resolved"
    /\ pc[2] = "awaitGroq"
    /\ walletAddress[1] = walletAddress[2]
    /\ etherscanData[1] = etherscanData[2]
    /\ payload[1] # NoPayload
    /\ payload[2] = payload[1]

\* the outcome of an invocation that runs alone on the address, is answered
\* with the responses rs, in order, and reads the clock at now
RunAlone(address, rs, now) ==
    IF ~MatchesAddressPattern(address)
    THEN Rejected(CatchRethrow(InvalidAddressError))
    ELSE LET b == AxiosSettle(rs[1])
             t == AxiosSettle(rs[2])
             k == AxiosSettle(rs[3])
             f == FormatEtherscanData(b.data, t.data, k.data)
             g == AxiosSettle(rs[4])
             a == ParseAnalysis(g.data)
         IN  IF ~b.ok THEN Rejected(CatchRethrow(b.error))
             ELSE IF ~t.ok THEN Rejected(CatchRethrow(t.error))
             ELSE IF ~k.ok THEN Rejected(CatchRethrow(k.error))
             ELSE IF ~f.ok THEN Rejected(CatchRethrow(f.error))
             ELSE IF ~g.ok THEN Rejected(CatchRethrow(g.error))
             ELSE IF ~a.ok THEN Rejected(CatchRethrow(a.error))
             ELSE Fulfilled(AssembleReport(address, f.value, a.value, now))

\* the variables of invocation i
Locals(i) ==
    <<pc[i], walletAddress[i], balanceResponse[i], txResponse[i], tokenBalanceResponse[i],
      etherscanData[i], payload[i], response[i], analysis[i], thrown[i], outcome[i],
      requests[i], received[i]>>

\* C13: under every interleaving of two invocations, the outcome of each is
\* the outcome of a run alone on its own address, answered with the
\* responses its own requests were answered with, and no step of one
\* invocation changes a variable of the other
C13_InvocationsIndependent ==
    /\ [](\A i \in Ids :
            outcome[i].state # "pending" =>
                \E now \in 0..clock :
                    outcome[i] = RunAlone(walletAddress[i], received[i], now))
    /\ [][\A i, j \in Ids :
            (i # j /\ Locals(i)' # Locals(i)) => Locals(j)' = Locals(j)]_vars

\* both invocations are under way with different addresses and different
\* balances when the first returns its report; the second then fails at its
\* transaction list
C13_Witness ==
    /\ outcome[1].state = "fulfilled"
    /\ outcome[2].state = "rejected"
    /\ outcome[2].error.name = "AxiosError"
    /\ Len(received[2]) = 2
    /\ walletAddress[1] # walletAddress[2]
    /\ balanceResponse[1] # balanceResponse[2]
    /\ balanceResponse[2] # Undefined

\* C15: in handleAnalyze, isLoading is true while the call of analyzeWallet
\* is awaited and false once the handler has run to its end, on the success
\* and on the failure path; it resumes only when the call has settled and
\* always does; after a submission has run to its end exactly one of error
\* and walletData is non-null, the report with error null on success and
\* the error's message with walletData null on failure; a text that does not
\* match the pattern sets error and walletData null in the same turn,
\* without a call of analyzeWallet
C15_HandleAnalyze ==
    /\ [](/\ home.awaiting # 0 => home.isLoading /\ home.error = Null
          /\ home.awaiting = 0 => ~home.isLoading
          /\ (home.awaiting = 0 /\ home.submitted > 0) =>
                (home.error = Null) # (home.walletData = <<>>))
    /\ [][\A i \in Ids :
            (home.awaiting = i /\ home'.awaiting # i) =>
                /\ outcome[i].state # "pending"
                /\ ~home'.isLoading
                /\ outcome[i].state = "fulfilled" =>
                        home'.walletData = <<outcome[i].report>> /\ home'.error = Null
                /\ outcome[i].state = "rejected" =>
                        /\ home'.walletData = <<>>
                        /\ home'.error = Str(outcome[i].error.message)]_vars
    /\ [][(home'.submitted # home.submitted /\ ~MatchesAddressPattern(home.walletAddress)) =>
            /\ home'.error = Str("Invalid Ethereum wallet address format")
            /\ home'.walletData = <<>>
            /\ ~home'.isLoading
            /\ UNCHANGED <<pc, walletAddress, outcome, requests>>]_vars
    /\ \A i \in Ids :
            (home.awaiting = i /\ outcome[i].state # "pending") ~> ~home.isLoading

\* the first submission, of a text that does not match the pattern, showed
\* the error and made no call; the second one has returned a report, which
\* is shown alone
C15_Witness ==
    /\ home.submitted = 2
    /\ home.awaiting = 0
    /\ pc[1] = "idle"
    /\ outcome[2].state = "fulfilled"
    /\ home.walletData = <<outcome[2].report>>
    /\ home.error = Null
    /\ ~home.isLoading

====
